---- MODULE Spec2Model ----
(***************************************************************************)
(* Model of the local project import of bolt.new.                          *)
(*                                                                         *)
(*   - the hierarchical pipeline importLocalDirectory                      *)
(*     (app/lib/importDirectory.ts, and its older variant lib/localImport) *)
(*     that walks a directory handle, writes it into the WebContainer,     *)
(*     runs npm install and starts the project;                            *)
(*   - the flat import handler handleImportedFiles of Workbench.client.tsx *)
(*     that merges a list of File objects into workbenchStore.files and    *)
(*     submits the install and run commands to the terminal.               *)
(*                                                                         *)
(* Strings that the code inspects character by character (paths and ignore *)
(* patterns of the hierarchical pipeline) are sequences of one-character   *)
(* strings.  Paths of the flat handler are only split at '/' and joined    *)
(* again, so they are sequences of path segments.                          *)
(***************************************************************************)
EXTENDS Integers, Sequences, FiniteSets, TLC

(***************************************************************************)
(* Bounds of the model.                                                    *)
(***************************************************************************)
\* largest number of entries (files and directories) of a selected directory
MaxNodes == 3
\* how many sandbox or file-read operations may fail in one run
MaxFaults == 1
\* npm install exits with a code in 0..MaxExitCode
MaxExitCode == 1
\* chunks of output the install process writes
MaxOutput == 1
\* number of 'workbench:import-files' events of a behaviour
MaxImports == 2
\* largest number of characters of a .gitignore given to parseGitignore
MaxContentLen == 4
\* how many of the SpecialFiles a selection of handleImportProject holds
MaxPicked == 2

(***************************************************************************)
(* Character strings.                                                      *)
(***************************************************************************)
StartsWith(s, p) == Len(p) <= Len(s) /\ SubSeq(s, 1, Len(p)) = p

EndsWith(s, p) == Len(p) <= Len(s) /\ SubSeq(s, Len(s) - Len(p) + 1, Len(s)) = p

\* s.substring(n): the string without its first n characters
Substring(s, n) == SubSeq(s, n + 1, Len(s))

SLASH == <<"/">>

NODE_MODULES == <<"n","o","d","e","_","m","o","d","u","l","e","s">>
DOT_GIT == <<".","g","i","t">>
PACKAGE_JSON == <<"p","a","c","k","a","g","e",".","j","s","o","n">>
GITIGNORE == <<".","g","i","t","i","g","n","o","r","e">>
SRC == <<"s","r","c">>
OUT == <<"o","u","t">>
A_JS == <<"a",".","j","s">>

\* WORK_DIR of ~/utils/constants, the root the older variant imports into
WORK_DIR == <<"/","h","o","m","e","/","p","r","o","j","e","c","t">>

DEFAULT_IGNORE_PATTERNS ==
  << NODE_MODULES,
     DOT_GIT,
     <<".","g","i","t","h","u","b">>,
     <<"d","i","s","t">>,
     <<"b","u","i","l","d">>,
     <<".","c","a","c","h","e">>,
     <<".","D","S","_","S","t","o","r","e">>,
     <<"c","o","v","e","r","a","g","e">>,
     <<".","e","n","v">>,
     <<".","e","n","v",".","l","o","c","a","l">>,
     <<".","e","n","v",".","d","e","v","e","l","o","p","m","e","n","t",".","l","o","c","a","l">>,
     <<".","e","n","v",".","t","e","s","t",".","l","o","c","a","l">>,
     <<".","e","n","v",".","p","r","o","d","u","c","t","i","o","n",".","l","o","c","a","l">>,
     <<"n","p","m","-","d","e","b","u","g",".","l","o","g","*">>,
     <<"y","a","r","n","-","d","e","b","u","g",".","l","o","g","*">>,
     <<"y","a","r","n","-","e","r","r","o","r",".","l","o","g","*">>
  >>

(***************************************************************************)
(* parseGitignore: split at line breaks, trim, drop empty and comment      *)
(* lines, strip one leading slash.                                         *)
(***************************************************************************)
WhiteSpace == {" ", "\t", "\r"}

RECURSIVE TrimStart(_)
TrimStart(s) ==
  IF s # <<>> /\ Head(s) \in WhiteSpace THEN TrimStart(Tail(s)) ELSE s

RECURSIVE TrimEnd(_)
TrimEnd(s) ==
  IF s # <<>> /\ s[Len(s)] \in WhiteSpace THEN TrimEnd(SubSeq(s, 1, Len(s) - 1)) ELSE s

Trim(s) == TrimEnd(TrimStart(s))

\* content.split('\n'): the lines of content, at least one
RECURSIVE SplitLines(_, _)
SplitLines(s, cur) ==
  IF s = <<>> THEN <<cur>>
  ELSE IF Head(s) = "\n" THEN <<cur>> \o SplitLines(Tail(s), <<>>)
  ELSE SplitLines(Tail(s), Append(cur, Head(s)))

IsPatternLine(line) == line # <<>> /\ ~StartsWith(line, <<"#">>)

StripLeadingSlash(pattern) ==
  IF StartsWith(pattern, SLASH) THEN Substring(pattern, 1) ELSE pattern

\* .split('\n').map(trim).filter(non-empty, no comment).map(strip slash)
parseGitignore(content) ==
  LET lines == SplitLines(content, <<>>)
      trimmed == [i \in 1..Len(lines) |-> Trim(lines[i])]
      patterns == SelectSeq(trimmed, IsPatternLine)
  IN  [i \in 1..Len(patterns) |-> StripLeadingSlash(patterns[i])]

(***************************************************************************)
(* shouldIgnore: a path is ignored when one pattern matches it exactly, as *)
(* a directory prefix, as an extension wildcard or as a prefix wildcard.   *)
(***************************************************************************)
PatternMatches(normalizedPath, pattern) ==
  \/ normalizedPath = pattern
  \/ EndsWith(pattern, SLASH) /\ StartsWith(normalizedPath, pattern)
  \/ StartsWith(pattern, <<"*", ".">>) /\ EndsWith(normalizedPath, Substring(pattern, 1))
  \/ EndsWith(pattern, <<"*">>)
       /\ StartsWith(normalizedPath, SubSeq(pattern, 1, Len(pattern) - 1))

shouldIgnore(path, patterns) ==
  LET normalizedPath == IF StartsWith(path, SLASH) THEN Substring(path, 1) ELSE path
  IN  \E i \in 1..Len(patterns) : PatternMatches(normalizedPath, patterns[i])

(***************************************************************************)
(* The selected directory: a set of entries, each with the names on the    *)
(* way from the selected directory to it and its kind.                     *)
(***************************************************************************)
Node(path, kind) == [path |-> path, kind |-> kind]

NodeUniverse ==
  { Node(<<PACKAGE_JSON>>, "file"),
    Node(<<PACKAGE_JSON>>, "directory"),
    Node(<<GITIGNORE>>, "file"),
    Node(<<SRC>>, "directory"),
    Node(<<SRC, A_JS>>, "file"),
    Node(<<SRC, NODE_MODULES>>, "directory"),
    Node(<<SRC, NODE_MODULES, A_JS>>, "file"),
    Node(<<OUT>>, "directory"),
    Node(<<OUT, A_JS>>, "file") }

Parent(path) == SubSeq(path, 1, Len(path) - 1)

ValidTree(T) ==
  /\ \A m, n \in T : m.path = n.path => m = n
  /\ \A n \in T : Len(n.path) > 1 => Node(Parent(n.path), "directory") \in T

Trees == { T \in SUBSET NodeUniverse : Cardinality(T) <= MaxNodes /\ ValidTree(T) }

\* directoryHandle.entries() of the directory at dir: names and handles
Entries(T, dir) == { n \in T : Len(n.path) = Len(dir) + 1 /\ Parent(n.path) = dir }

(***************************************************************************)
(* File contents.  A package.json text is either not JSON or an object     *)
(* with the given scripts (no "scripts" member when the set is empty).     *)
(***************************************************************************)
ScriptNames == {"start", "dev", "serve", "develop"}

Manifest(scripts) == [json |-> TRUE, scripts |-> scripts, text |-> <<>>]

NotJson == [json |-> FALSE, scripts |-> {}, text |-> <<"{">>]

\* a file that holds the given characters
Text(chars) == [json |-> FALSE, scripts |-> {}, text |-> chars]

PackageJsonTexts ==
  { NotJson, Manifest({}), Manifest({"dev"}), Manifest({"develop"}),
    Manifest({"start", "dev"}), Manifest({"serve", "develop"}) }

\* JSON.parse: throws on text that is not JSON
JsonParse(text) ==
  IF text.json THEN [ok |-> TRUE, scripts |-> text.scripts] ELSE [ok |-> FALSE, scripts |-> {}]

BYTES == Text(<<"b">>)

GitignoreTexts ==
  { <<>>,
    <<"*",".","j","s","o","n">>,
    <<"#"," ","c","\n","o","u","t","/","\n"," ","/","s","r","c"," ","\n">> }

(***************************************************************************)
(* State.                                                                  *)
(***************************************************************************)
VARIABLES
  variant,          \* which importLocalDirectory runs: "importDirectory" | "localImport"
  pc,               \* position of importLocalDirectory
  pickerSupported,  \* window.showDirectoryPicker is defined
  tree,             \* the directory the user selected
  pkgText,          \* text of its top-level package.json
  gitignoreText,    \* text of its top-level .gitignore
  ignorePatterns,   \* DEFAULT_IGNORE_PATTERNS and the parsed .gitignore
  stack,            \* frames of importDirectoryContents, innermost first
  fsOps,            \* sandbox operations issued so far, in order
  fsFiles,          \* files of the sandbox: path -> content
  fsDirs,           \* directories of the sandbox
  faults,           \* the file reads and sandbox operations that failed, in order
  installExitCode,  \* exit code of the install process, -1 before it exits
  startCmd,         \* result of determineStartCommand
  result            \* outcome of importLocalDirectory

hierVars ==
  << variant, pc, pickerSupported, tree, pkgText, gitignoreText, ignorePatterns,
     stack, fsOps, fsFiles, fsDirs, faults, installExitCode, startCmd, result >>

VARIABLES
  files,            \* workbenchStore.files: path -> entry, in insertion order
  runs,             \* the calls of processFiles, in the order of their events
  lastWriter,       \* the run that set workbenchStore.files last, 0 if none
  meta,             \* localStorage 'importedProjectMeta'
  selectedFile,     \* workbenchStore.selectedFile
  terminal,         \* commands submitted to the terminal
  terminalFound,    \* a terminal object is there when runCommands looks for one
  toasts            \* notifications shown

flatVars == << files, runs, lastWriter, meta, selectedFile, terminal, terminalFound, toasts >>

VARIABLES
  gitignoreContent,          \* text given to parseGitignore
  parseReturned,           \* parseGitignore has returned
  patterns          \* what it returned

parseVars == << gitignoreContent, parseReturned, patterns >>

VARIABLES
  inputFiles,       \* input.files of the directory input of handleImportProject
  chatStarted,      \* the chatStarted prop when input.onchange runs
  confirmImport,    \* what the user answers if window.confirm is shown
  sendMessageThrows,\* sendMessage throws in the chat initialization
  selectPhase,      \* "idle" | "selected" (onchange pending) | "handled"
  filesToImport,    \* the files the filter of onchange kept
  confirmAsked,     \* window.confirm was shown
  dispatched,       \* the 'workbench:import-files' events dispatched
  notices,          \* the toasts of handleImportProject
  sentMessages,     \* calls of sendMessage
  selectVariant,    \* which handleImportProject runs: "chatInit" | "excludedCount"
  importMode,       \* window.__PROJECT_IMPORT_MODE__ and the storage flags are set
  showWorkbench     \* "unset" | "scheduled" (the 500 ms timer is pending) | "set"

selectVars ==
  << inputFiles, chatStarted, confirmImport, sendMessageThrows, selectPhase, filesToImport,
     confirmAsked, dispatched, notices, sentMessages, selectVariant, importMode,
     showWorkbench >>

VARIABLES
  chatStoreStarted, \* chatStore 'started' (and chatStarted of BaseChat)
  startProcess,     \* the start process: "none" | "running" | "exited"
  installOutput,    \* chunks the install process has written to its output
  installConsumed   \* chunks the WritableStream of pipeTo has received

procVars == << chatStoreStarted, startProcess, installOutput, installConsumed >>

\* the state of parseGitignore and of handleImportProject, and the processes
auxVars == << parseVars, selectVars, procVars >>

vars == << hierVars, flatVars, auxVars >>

Variants == {"importDirectory", "localImport"}

MSG_UNSUPPORTED == "The showDirectoryPicker API is not supported in this environment."
MSG_NO_PACKAGE_JSON == "No package.json found in the selected directory"
MSG_INSTALL_FAILED == "npm install failed with exit code"
MSG_NO_START == "Unable to determine how to start the project. Check package.json for a start script."
MSG_IO == "operation failed"
MSG_BROWSER == "Your browser does not support the File System Access API"
MSG_IMPORTED == "Project imported successfully!"
MSG_ANIMATION == "animation failed"
MSG_LOADED == "Successfully loaded files into the workbench"
MSG_PROJECT_IMPORTED == "Project imported with files"
MSG_LOAD_ERROR == "Error loading files into workbench"

Pending == [status |-> "pending", message |-> "", code |-> -1]
Returned == [status |-> "returned", message |-> "", code |-> -1]
Thrown(message, code) == [status |-> "thrown", message |-> message, code |-> code]

Op(op, arg, cwd, ok) == [op |-> op, arg |-> arg, cwd |-> cwd, ok |-> ok]

\* toast.success, toast.error, toast.info: count is the number the message
\* carries (-1 when it carries none), run the call of processFiles that shows
\* it (0 for a handler outside processFiles)
Toast(type, message, count, run) ==
  [type |-> type, message |-> message, count |-> count, run |-> run]

\* a rejected promise: the read of a file ("read") or a sandbox operation
Fault(op, path) == [op |-> op, path |-> path]

EmptyFs == [p \in {} |-> BYTES]

\* root of the import in the sandbox
Root == IF variant = "importDirectory" THEN SLASH ELSE WORK_DIR

\* SpawnCwd with the root of the file system for WORK_DIR
SpawnCwdAtSlash == IF variant = "importDirectory" THEN <<>> ELSE SLASH

\* working directory passed to spawn (none in importDirectory.ts)
SpawnCwd == IF variant = "importDirectory" THEN <<>> ELSE WORK_DIR

\* path read by determineStartCommand
PackageJsonPath ==
  IF variant = "importDirectory" THEN SLASH \o PACKAGE_JSON
  ELSE WORK_DIR \o SLASH \o PACKAGE_JSON

Content(n) ==
  IF n.path = <<PACKAGE_JSON>> THEN pkgText
  ELSE IF n.path = <<GITIGNORE>> THEN Text(gitignoreText)
  ELSE BYTES

HierInit ==
  /\ variant \in Variants
  /\ pickerSupported \in BOOLEAN
  /\ pc = "idle"
  /\ tree = {}
  /\ pkgText = NotJson
  /\ gitignoreText = <<>>
  /\ ignorePatterns = <<>>
  /\ stack = <<>>
  /\ fsOps = <<>>
  /\ fsFiles = EmptyFs
  /\ fsDirs = {}
  /\ faults = <<>>
  /\ installExitCode = -1
  /\ startCmd = <<>>
  /\ result = Pending
  /\ chatStoreStarted = FALSE
  /\ startProcess = "none"
  /\ installOutput = 0
  /\ installConsumed = 0

(***************************************************************************)
(* importLocalDirectory, one action per step between two awaits.           *)
(***************************************************************************)
\* findFile without the test of handle.kind
findFileAnyKind(T, filename) == { n \in Entries(T, <<>>) : n.path = <<filename>> }

\* findFile: the top-level entry with that name, if it is a file
findFile(T, filename) == { n \in Entries(T, <<>>) : n.path = <<filename>> /\ n.kind = "file" }

findPackageJson(T) == findFile(T, PACKAGE_JSON)

Throw(message, code) ==
  /\ pc' = "failed"
  /\ result' = Thrown(message, code)

\* ShowDirectoryPicker without the check of window.showDirectoryPicker
ShowDirectoryPickerUnchecked ==
  /\ pc = "idle"
  /\ \E T \in Trees :
       /\ tree' = T
       /\ pkgText' \in (IF findFile(T, PACKAGE_JSON) # {} THEN PackageJsonTexts ELSE {NotJson})
       /\ gitignoreText' \in (IF findFile(T, GITIGNORE) # {} THEN GitignoreTexts ELSE {<<>>})
  /\ pc' = "findPackageJson"
  /\ UNCHANGED << auxVars, flatVars, variant, pickerSupported, ignorePatterns, stack, fsOps, fsFiles, fsDirs,
                  faults, installExitCode, startCmd, result >>

\* the check of window.showDirectoryPicker and the user's choice of a directory
ShowDirectoryPicker ==
  /\ pc = "idle"
  /\ IF ~pickerSupported
     THEN /\ Throw(MSG_UNSUPPORTED, -1)
          /\ UNCHANGED << tree, pkgText, gitignoreText >>
     ELSE /\ \E T \in Trees :
               /\ tree' = T
               /\ pkgText' \in (IF findFile(T, PACKAGE_JSON) # {} THEN PackageJsonTexts ELSE {NotJson})
               /\ gitignoreText' \in (IF findFile(T, GITIGNORE) # {} THEN GitignoreTexts ELSE {<<>>})
          /\ pc' = "findPackageJson"
          /\ UNCHANGED result
  /\ UNCHANGED << auxVars, flatVars, variant, pickerSupported, ignorePatterns, stack, fsOps, fsFiles, fsDirs,
                  faults, installExitCode, startCmd >>

\* "Check for package.json"
CheckPackageJson ==
  /\ pc = "findPackageJson"
  /\ IF findPackageJson(tree) = {}
     THEN Throw(MSG_NO_PACKAGE_JSON, -1)
     ELSE /\ pc' = IF variant = "importDirectory" THEN "gitignore" ELSE "clear"
          /\ UNCHANGED result
  /\ UNCHANGED << auxVars, flatVars, variant, pickerSupported, tree, pkgText, gitignoreText, ignorePatterns,
                  stack, fsOps, fsFiles, fsDirs, faults, installExitCode, startCmd >>

\* the methods of a File object (File API); getFile is a method of a
\* FileSystemFileHandle, not of a File
FileMethods == {"text", "arrayBuffer", "slice", "stream"}

\* "Try to read .gitignore if it exists".  findFile returns the File of the
\* entry, so gitignoreHandle.getFile() is a call of a method a File does not
\* have: it throws inside the try, and the catch leaves the default patterns
ReadGitignore ==
  /\ pc = "gitignore"
  /\ ignorePatterns' =
       IF findFile(tree, GITIGNORE) # {} /\ "getFile" \in FileMethods
       THEN DEFAULT_IGNORE_PATTERNS \o parseGitignore(gitignoreText)
       ELSE DEFAULT_IGNORE_PATTERNS
  /\ pc' = "clear"
  /\ UNCHANGED << auxVars, flatVars, variant, pickerSupported, tree, pkgText, gitignoreText, stack, fsOps,
                  fsFiles, fsDirs, faults, installExitCode, startCmd, result >>

Frame(dir, currentPath, todo) == [dir |-> dir, currentPath |-> currentPath, todo |-> todo]

\* the frame of importDirectoryContents(directoryHandle, webcontainer, currentPath)
RootFrame ==
  Frame(<<>>, Root, { n.path[1] : n \in Entries(tree, <<>>) })

\* "Clear existing files in the container": a rejected rm is ignored; the older
\* variant then creates WORK_DIR, and a rejected mkdir is thrown
ClearContainer ==
  /\ pc = "clear"
  /\ \E rmOk \in BOOLEAN, mkdirOk \in BOOLEAN :
       LET failed == (IF rmOk THEN <<>> ELSE <<Fault("rm", Root)>>)
                       \o (IF variant = "localImport" /\ ~mkdirOk
                           THEN <<Fault("mkdir", WORK_DIR)>> ELSE <<>>)
       IN
       /\ variant = "importDirectory" => mkdirOk
       /\ Len(faults) + Len(failed) <= MaxFaults
       /\ faults' = faults \o failed
       /\ fsFiles' = IF rmOk THEN EmptyFs ELSE fsFiles
       /\ fsDirs' = (IF rmOk THEN {} ELSE fsDirs)
                      \cup (IF variant = "localImport" /\ mkdirOk THEN {WORK_DIR} ELSE {})
       /\ fsOps' = fsOps \o <<Op("rm", Root, <<>>, rmOk)>>
                     \o (IF variant = "localImport"
                         THEN <<Op("mkdir", WORK_DIR, <<>>, mkdirOk)>> ELSE <<>>)
       /\ IF mkdirOk
          THEN /\ pc' = "walk"
               /\ stack' = <<RootFrame>>
               /\ UNCHANGED result
          ELSE /\ Throw(MSG_IO, -1)
               /\ UNCHANGED stack
  /\ UNCHANGED << auxVars, flatVars, variant, pickerSupported, tree, pkgText, gitignoreText, ignorePatterns,
                  installExitCode, startCmd >>

(***************************************************************************)
(* importDirectoryContents: the entries of a directory are taken in any    *)
(* order; a directory is created and then walked before its next sibling.  *)
(***************************************************************************)
Top == stack[1]

\* the sandbox path of the entry called name in the directory being walked
EntryPath(name) ==
  IF variant = "importDirectory" THEN Top.currentPath \o name
  ELSE Top.currentPath \o SLASH \o name

EntryNode(name) == CHOOSE n \in tree : n.path = Append(Top.dir, name)

\* the entries the walk leaves out
Skipped(name) ==
  IF variant = "importDirectory" THEN shouldIgnore(EntryPath(name), ignorePatterns)
  ELSE name = NODE_MODULES \/ name = DOT_GIT

\* the frame on top with name taken off its entries
Advance(name) == <<[Top EXCEPT !.todo = @ \ {name}]>> \o Tail(stack)

Walking == pc = "walk" /\ stack # <<>>

WalkSkip ==
  /\ Walking
  /\ \E name \in Top.todo :
       /\ Skipped(name)
       /\ stack' = Advance(name)
  /\ UNCHANGED << auxVars, flatVars, variant, pc, pickerSupported, tree, pkgText, gitignoreText, ignorePatterns,
                  fsOps, fsFiles, fsDirs, faults, installExitCode, startCmd, result >>

WalkFile ==
  /\ Walking
  /\ \E name \in Top.todo :
       /\ ~Skipped(name)
       /\ EntryNode(name).kind = "file"
       /\ fsOps' = Append(fsOps, Op("writeFile", EntryPath(name), <<>>, TRUE))
       /\ fsFiles' = [p \in DOMAIN fsFiles \cup {EntryPath(name)} |->
                        IF p = EntryPath(name) THEN Content(EntryNode(name)) ELSE fsFiles[p]]
       /\ stack' = Advance(name)
  /\ UNCHANGED << auxVars, flatVars, variant, pc, pickerSupported, tree, pkgText, gitignoreText, ignorePatterns,
                  fsDirs, faults, installExitCode, startCmd, result >>

\* getFile/arrayBuffer or writeFile rejects: importDirectory.ts logs it and goes
\* on, the older variant has no try around it
WalkFileFails ==
  /\ Walking
  /\ Len(faults) < MaxFaults
  /\ \E name \in Top.todo, readOk \in BOOLEAN :
       /\ ~Skipped(name)
       /\ EntryNode(name).kind = "file"
       /\ fsOps' = IF readOk THEN Append(fsOps, Op("writeFile", EntryPath(name), <<>>, FALSE))
                   ELSE fsOps
       /\ faults' = Append(faults, Fault(IF readOk THEN "writeFile" ELSE "read", EntryPath(name)))
       /\ IF variant = "importDirectory"
          THEN /\ stack' = Advance(name)
               /\ UNCHANGED << pc, result >>
          ELSE /\ Throw(MSG_IO, -1)
               /\ UNCHANGED stack
  /\ UNCHANGED << auxVars, flatVars, variant, pickerSupported, tree, pkgText, gitignoreText, ignorePatterns,
                  fsFiles, fsDirs, installExitCode, startCmd >>

WalkDir ==
  /\ Walking
  /\ \E name \in Top.todo :
       LET n == EntryNode(name)
           sub == IF variant = "importDirectory" THEN EntryPath(name) \o SLASH
                  ELSE EntryPath(name)
       IN
       /\ ~Skipped(name)
       /\ n.kind = "directory"
       /\ fsOps' = Append(fsOps, Op("mkdir", EntryPath(name), <<>>, TRUE))
       /\ fsDirs' = fsDirs \cup {EntryPath(name)}
       /\ stack' = <<Frame(n.path, sub, { c.path[Len(c.path)] : c \in Entries(tree, n.path) })>>
                     \o Advance(name)
  /\ UNCHANGED << auxVars, flatVars, variant, pc, pickerSupported, tree, pkgText, gitignoreText, ignorePatterns,
                  fsFiles, faults, installExitCode, startCmd, result >>

\* mkdir rejects: nothing catches it, importLocalDirectory throws
WalkDirFails ==
  /\ Walking
  /\ Len(faults) < MaxFaults
  /\ \E name \in Top.todo :
       /\ ~Skipped(name)
       /\ EntryNode(name).kind = "directory"
       /\ fsOps' = Append(fsOps, Op("mkdir", EntryPath(name), <<>>, FALSE))
       /\ faults' = Append(faults, Fault("mkdir", EntryPath(name)))
  /\ Throw(MSG_IO, -1)
  /\ UNCHANGED << auxVars, flatVars, variant, pickerSupported, tree, pkgText, gitignoreText, ignorePatterns,
                  stack, fsFiles, fsDirs, installExitCode, startCmd >>

\* WalkReturn when the recursive call is not awaited: the caller goes on to
\* npm install as soon as one directory is done
WalkReturnNotAwaited ==
  /\ Walking
  /\ Top.todo = {}
  /\ stack' = Tail(stack)
  /\ pc' = "install"
  /\ UNCHANGED << auxVars, flatVars, variant, pickerSupported, tree, pkgText, gitignoreText, ignorePatterns,
                  fsOps, fsFiles, fsDirs, faults, installExitCode, startCmd, result >>

\* the loop over the entries of a directory ends
WalkReturn ==
  /\ Walking
  /\ Top.todo = {}
  /\ stack' = Tail(stack)
  /\ pc' = IF Tail(stack) = <<>> THEN "install" ELSE "walk"
  /\ UNCHANGED << auxVars, flatVars, variant, pickerSupported, tree, pkgText, gitignoreText, ignorePatterns,
                  fsOps, fsFiles, fsDirs, faults, installExitCode, startCmd, result >>

(***************************************************************************)
(* npm install, determineStartCommand and the start of the project.        *)
(***************************************************************************)
NPM_INSTALL == <<"npm", "install">>

SpawnInstall ==
  /\ pc = "install"
  /\ fsOps' = Append(fsOps, Op("spawn", NPM_INSTALL, SpawnCwd, TRUE))
  /\ pc' = "awaitInstall"
  /\ UNCHANGED << auxVars, flatVars, variant, pickerSupported, tree, pkgText, gitignoreText, ignorePatterns,
                  stack, fsFiles, fsDirs, faults, installExitCode, startCmd, result >>

\* InstallExit without the test of the exit code
InstallExitUnchecked ==
  /\ pc = "awaitInstall"
  /\ \E code \in 0..MaxExitCode :
       /\ installExitCode' = code
       /\ pc' = "determineStart"
  /\ UNCHANGED << auxVars, flatVars, variant, pickerSupported, tree, pkgText, gitignoreText, ignorePatterns,
                  stack, fsOps, fsFiles, fsDirs, faults, startCmd, result >>

\* InstallExit where the exit is observed only when the output is drained
InstallExitAfterDrain ==
  /\ pc = "awaitInstall"
  /\ installConsumed = installOutput
  /\ \E code \in 0..MaxExitCode :
       /\ installExitCode' = code
       /\ IF code # 0
          THEN Throw(MSG_INSTALL_FAILED, code)
          ELSE /\ pc' = "determineStart"
               /\ UNCHANGED result
  /\ UNCHANGED << auxVars, flatVars, variant, pickerSupported, tree, pkgText, gitignoreText, ignorePatterns,
                  stack, fsOps, fsFiles, fsDirs, faults, startCmd >>

\* await installProcess.exit
InstallExit ==
  /\ pc = "awaitInstall"
  /\ \E code \in 0..MaxExitCode :
       /\ installExitCode' = code
       /\ IF code # 0
          THEN Throw(MSG_INSTALL_FAILED, code)
          ELSE /\ pc' = "determineStart"
               /\ UNCHANGED result
  /\ UNCHANGED << auxVars, flatVars, variant, pickerSupported, tree, pkgText, gitignoreText, ignorePatterns,
                  stack, fsOps, fsFiles, fsDirs, faults, startCmd >>

\* the command for the scripts of a parsed package.json
StartCommandFor(scripts) ==
  IF "start" \in scripts THEN <<"npm", "run", "start">>
  ELSE IF "dev" \in scripts THEN <<"npm", "run", "dev">>
  ELSE IF "serve" \in scripts THEN <<"npm", "run", "serve">>
  ELSE <<"npm", "start">>

\* determineStartCommand: null (the empty command) when package.json cannot
\* be read or parsed
determineStartCommand(sandboxFiles) ==
  IF PackageJsonPath \notin DOMAIN sandboxFiles THEN <<>>
  ELSE LET packageJson == JsonParse(sandboxFiles[PackageJsonPath])
       IN  IF ~packageJson.ok THEN <<>> ELSE StartCommandFor(packageJson.scripts)

DetermineStart ==
  /\ pc = "determineStart"
  /\ fsOps' = Append(fsOps, Op("readFile", PackageJsonPath, <<>>, PackageJsonPath \in DOMAIN fsFiles))
  /\ startCmd' = determineStartCommand(fsFiles)
  /\ IF startCmd' = <<>>
     THEN Throw(MSG_NO_START, -1)
     ELSE /\ pc' = "spawnStart"
          /\ UNCHANGED result
  /\ UNCHANGED << auxVars, flatVars, variant, pickerSupported, tree, pkgText, gitignoreText, ignorePatterns,
                  stack, fsFiles, fsDirs, faults, installExitCode >>

\* SpawnStart with `await startProcess.exit` before the return
SpawnStartAwaitsExit ==
  /\ pc = "spawnStart"
  /\ fsOps' = Append(fsOps, Op("spawn", startCmd, SpawnCwd, TRUE))
  /\ startProcess' = "running"
  /\ pc' = "awaitStart"
  /\ UNCHANGED << parseVars, selectVars, chatStoreStarted, installOutput, installConsumed, flatVars,
                  variant, pickerSupported, tree, pkgText, gitignoreText, ignorePatterns,
                  stack, fsFiles, fsDirs, faults, installExitCode, startCmd, result >>

\* the start process is spawned and not awaited; importLocalDirectory returns true
SpawnStart ==
  /\ pc = "spawnStart"
  /\ fsOps' = Append(fsOps, Op("spawn", startCmd, SpawnCwd, TRUE))
  /\ startProcess' = "running"
  /\ pc' = "done"
  /\ result' = Returned
  /\ UNCHANGED << parseVars, selectVars, chatStoreStarted, installOutput, installConsumed, flatVars, variant, pickerSupported, tree, pkgText, gitignoreText, ignorePatterns,
                  stack, fsFiles, fsDirs, faults, installExitCode, startCmd >>

\* the start process ends (a dev server may never do so)
StartProcessExits ==
  /\ startProcess = "running"
  /\ startProcess' = "exited"
  /\ UNCHANGED << parseVars, selectVars, chatStoreStarted, installOutput, installConsumed, flatVars, hierVars >>

\* the install process writes a chunk to its output while it runs
InstallWritesOutput ==
  /\ pc = "awaitInstall"
  /\ installOutput < MaxOutput
  /\ installOutput' = installOutput + 1
  /\ UNCHANGED << parseVars, selectVars, chatStoreStarted, startProcess, installConsumed, flatVars, hierVars >>

\* installProcess.output.pipeTo(new WritableStream({write})): write receives
\* the next chunk; the promise of pipeTo is not awaited
ConsumeInstallOutput ==
  /\ installConsumed < installOutput
  /\ installConsumed' = installConsumed + 1
  /\ UNCHANGED << parseVars, selectVars, chatStoreStarted, startProcess, installOutput, flatVars, hierVars >>

(***************************************************************************)
(* openLocalDirectory of BaseChat.tsx, the caller of the importLocalDirectory *)
(* of ~/lib/localImport: one toast when the call has ended.                *)
(***************************************************************************)
\* openLocalDirectory has shown its toast
Notified == \E i \in 1..Len(toasts) : toasts[i].run = 0

\* "if (!window.showDirectoryPicker)": importLocalDirectory is not called
OpenLocalDirectoryUnsupported ==
  /\ pc = "idle"
  /\ variant = "localImport"
  /\ ~pickerSupported
  /\ ~Notified
  /\ toasts' = Append(toasts, Toast("error", MSG_BROWSER, -1, 0))
  /\ pc' = "unsupported"
  /\ UNCHANGED << auxVars, files, runs, lastWriter, meta, selectedFile, terminal, terminalFound,
                  variant, pickerSupported, tree, pkgText, gitignoreText, ignorePatterns,
                  stack, fsOps, fsFiles, fsDirs, faults, installExitCode, startCmd, result >>

\* importLocalDirectory has returned or thrown: runChatAnimation and
\* toast.success, or the catch with toast.error(error.message)
OpenLocalDirectoryEnds ==
  /\ pc \in {"done", "failed"}
  /\ variant = "localImport"
  /\ ~Notified
  /\ \E animationOk \in BOOLEAN :
       /\ toasts' = Append(toasts,
            IF result.status = "thrown" THEN Toast("error", result.message, result.code, 0)
            ELSE IF animationOk THEN Toast("success", MSG_IMPORTED, -1, 0)
            ELSE Toast("error", MSG_ANIMATION, -1, 0))
       /\ chatStoreStarted' = (chatStoreStarted \/ (result.status = "returned" /\ animationOk))
  /\ UNCHANGED << parseVars, selectVars, startProcess, installOutput, installConsumed, files, runs, lastWriter, meta, selectedFile, terminal, terminalFound,
                  variant, pc, pickerSupported, tree, pkgText, gitignoreText, ignorePatterns,
                  stack, fsOps, fsFiles, fsDirs, faults, installExitCode, startCmd, result >>

HierNext ==
  \/ ShowDirectoryPicker
  \/ CheckPackageJson
  \/ ReadGitignore
  \/ ClearContainer
  \/ WalkSkip
  \/ WalkFile
  \/ WalkFileFails
  \/ WalkDir
  \/ WalkDirFails
  \/ WalkReturn
  \/ SpawnInstall
  \/ InstallExit
  \/ DetermineStart
  \/ SpawnStart
  \/ StartProcessExits
  \/ InstallWritesOutput
  \/ ConsumeInstallOutput
  \/ OpenLocalDirectoryUnsupported
  \/ OpenLocalDirectoryEnds

(***************************************************************************)
(* Properties of importLocalDirectory.                                     *)
(***************************************************************************)
OpIndices(ops) == { i \in 1..Len(fsOps) : fsOps[i].op \in ops }

Spawns == OpIndices({"spawn"})

InstallSpawns == { i \in Spawns : fsOps[i].arg = NPM_INSTALL }

StartSpawns == Spawns \ InstallSpawns

DirectorySelected == pc # "idle" /\ pickerSupported

HasTopLevelPackageJsonFile == Node(<<PACKAGE_JSON>>, "file") \in tree

\* C1: a selected directory without a top-level file package.json makes the
\* call fail with 'No package.json found in the selected directory', and no
\* sandbox operation is issued at any point of that run.
C1_NoPackageJsonAbortsBeforeSandbox ==
  (DirectorySelected /\ ~HasTopLevelPackageJsonFile) =>
     /\ fsOps = <<>>
     /\ pc \in {"findPackageJson", "failed"}
     /\ pc = "failed" => result = Thrown(MSG_NO_PACKAGE_JSON, -1)

C1_Witness ==
  /\ pc = "failed"
  /\ result = Thrown(MSG_NO_PACKAGE_JSON, -1)
  /\ Node(<<PACKAGE_JSON>>, "directory") \in tree
  /\ fsOps = <<>>

\* C2: when npm install exits with a non-zero code C the run ends in the error
\* 'npm install failed with exit code C'; determineStartCommand is not called
\* and no start process is spawned.
C2_InstallFailureEndsRun ==
  installExitCode > 0 =>
     /\ pc = "failed"
     /\ result = Thrown(MSG_INSTALL_FAILED, installExitCode)
     /\ startCmd = <<>>
     /\ OpIndices({"readFile"}) = {}
     /\ StartSpawns = {}

C2_Witness ==
  /\ installExitCode = 1
  /\ pc = "failed"
  /\ InstallSpawns # {}

\* C3: the clear of the sandbox root comes before every mkdir and writeFile,
\* npm install is spawned only when the whole walk is over (no mkdir or
\* writeFile follows it), and the start process is spawned only after the
\* install process has exited with code 0.
C3_PipelineOrder ==
  /\ \A i \in OpIndices({"mkdir", "writeFile"}) :
       \E j \in OpIndices({"rm"}) : j < i
  /\ \A i \in Spawns : \A j \in OpIndices({"rm", "mkdir", "writeFile"}) : j < i
  /\ Spawns # {} => stack = <<>> /\ pc \notin {"clear", "walk"}
  /\ \A i \in StartSpawns :
       /\ installExitCode = 0
       /\ \E j \in InstallSpawns : j < i
  /\ Cardinality(InstallSpawns) <= 1
  /\ Cardinality(StartSpawns) <= 1

C3_Witness ==
  /\ pc = "done"
  /\ StartSpawns # {}
  /\ \E i \in OpIndices({"mkdir"}), j \in OpIndices({"writeFile"}) :
       fsOps[i].arg # WORK_DIR /\ i < j

\* the first script present in the order start > dev > serve > develop
PriorityScript(scripts) ==
  IF "start" \in scripts THEN "start"
  ELSE IF "dev" \in scripts THEN "dev"
  ELSE IF "serve" \in scripts THEN "serve"
  ELSE "develop"

\* the text of package.json in the sandbox is JSON
SandboxManifestParses ==
  /\ PackageJsonPath \in DOMAIN fsFiles
  /\ fsFiles[PackageJsonPath].json

\* C4: the run script is the first script of package.json in the order
\* start > dev > serve > develop.
C4_StartScriptPriority ==
  (pc = "done" /\ SandboxManifestParses
     /\ fsFiles[PackageJsonPath].scripts \cap ScriptNames # {}) =>
       startCmd = <<"npm", "run", PriorityScript(fsFiles[PackageJsonPath].scripts)>>

\* C5: a package.json that is missing or cannot be parsed when the start
\* command is determined does not abort the pipeline: the start command is
\* still spawned, with the start script.
C5_UnparsableManifestFallsBack ==
  (installExitCode = 0 /\ pc \in {"spawnStart", "done", "failed"} /\ ~SandboxManifestParses) =>
     /\ pc # "failed"
     /\ startCmd \in {<<"npm", "run", "start">>, <<"npm", "start">>}

\* C6: whenever npm install is spawned by importDirectory.ts, /package.json
\* exists in the sandbox.
C6_InstallHasPackageJson ==
  (variant = "importDirectory" /\ InstallSpawns # {}) =>
     PackageJsonPath \in DOMAIN fsFiles

(***************************************************************************)
(* What the walk should leave in the sandbox.                              *)
(***************************************************************************)
\* the names of path joined with '/'
RECURSIVE JoinPath(_)
JoinPath(path) ==
  IF Len(path) = 1 THEN path[1]
  ELSE JoinPath(Parent(path)) \o SLASH \o path[Len(path)]

\* the sandbox path the walk gives to the entry at path of the selected tree
SandboxPath(path) ==
  (IF variant = "importDirectory" THEN SLASH ELSE WORK_DIR \o SLASH) \o JoinPath(path)

\* the walk leaves out the entry at path itself
SkippedAt(path) ==
  IF variant = "importDirectory" THEN shouldIgnore(SandboxPath(path), ignorePatterns)
  ELSE path[Len(path)] = NODE_MODULES \/ path[Len(path)] = DOT_GIT

\* the walk comes to the entry at path: neither it nor a directory above it is left out
Walked(path) == \A k \in 1..Len(path) : ~SkippedAt(SubSeq(path, 1, k))

Materialized(n) ==
  IF n.kind = "file" THEN SandboxPath(n.path) \in DOMAIN fsFiles
  ELSE SandboxPath(n.path) \in fsDirs

FaultPaths == { faults[i].path : i \in 1..Len(faults) }

FaultOps == { faults[i].op : i \in 1..Len(faults) }

\* importDirectoryContents of the selected directory has returned
WalkDone ==
  \/ pc \in {"install", "awaitInstall", "determineStart", "spawnStart", "done"}
  \/ pc = "failed" /\ result.message \in {MSG_INSTALL_FAILED, MSG_NO_START}

\* every entry the walk comes to, but for those with a failure, is in the sandbox
RestMaterialized ==
  \A n \in tree :
    (Walked(n.path) /\ SandboxPath(n.path) \notin FaultPaths) => Materialized(n)

\* C11: a failed read of one file does not abort the walk: the file is left
\* out, every other entry that is not ignored is written to the sandbox, and
\* the pipeline goes on to npm install.
C11_ReadFailureSkipsFile ==
  (faults # <<>> /\ FaultOps = {"read"}) =>
     /\ result.message # MSG_IO
     /\ pc \in {"walk", "failed"} \/ WalkDone
     /\ WalkDone => RestMaterialized
     /\ pc = "failed" => InstallSpawns # {}

\* C13: in importDirectory.ts the failure of a single writeFile or mkdir of
\* the walk is caught: the call does not raise because of it and every other
\* entry is still materialized.
C13_SandboxFailureCaught ==
  (variant = "importDirectory" /\ faults # <<>> /\ FaultOps \subseteq {"writeFile", "mkdir"}) =>
     /\ result.message # MSG_IO
     /\ WalkDone => RestMaterialized

\* the directories among DEFAULT_IGNORE_PATTERNS: node_modules, .git, .github,
\* dist, build, .cache and coverage
ExcludedDirectories == { DEFAULT_IGNORE_PATTERNS[i] : i \in {1, 2, 3, 4, 5, 6, 8} }

\* the segments of a path: the pieces between its '/' characters
RECURSIVE SplitPath(_, _)
SplitPath(s, cur) ==
  IF s = <<>> THEN <<cur>>
  ELSE IF Head(s) = "/" THEN <<cur>> \o SplitPath(Tail(s), <<>>)
  ELSE SplitPath(Tail(s), Append(cur, Head(s)))

Segments(path) == { SplitPath(path, <<>>)[i] : i \in 1..Len(SplitPath(path, <<>>)) }

\* C15: the walk of importDirectory.ts issues no mkdir and no writeFile for a
\* path with a segment that is an excluded directory, at any depth.
C15_NoExcludedSegment ==
  variant = "importDirectory" =>
     \A i \in OpIndices({"mkdir", "writeFile"}) :
        Segments(fsOps[i].arg) \cap ExcludedDirectories = {}

\* C18: the result of the import is success whenever the walk was completed,
\* also when npm install exits with a non-zero code: importLocalDirectory
\* does not throw for it and openLocalDirectory shows no error.
C18_InstallFailureIsNotImportFailure ==
  (WalkDone /\ installExitCode > 0) =>
     /\ result.status # "thrown"
     /\ \A i \in 1..Len(toasts) : toasts[i].type # "error"

\* the directories d of the rules `d/` of the project's .gitignore
GitignoreDirectories ==
  LET rules == parseGitignore(gitignoreText)
  IN  { SubSeq(rules[i], 1, Len(rules[i]) - 1) :
          i \in { j \in 1..Len(rules) : Len(rules[j]) > 1 /\ EndsWith(rules[j], SLASH) } }

\* C29: for a rule `d/` of the .gitignore of the selected directory, the walk
\* of importDirectory.ts issues no mkdir and no writeFile for d or for a path
\* under d.
C29_GitignoreDirectoryRule ==
  variant = "importDirectory" =>
     \A i \in OpIndices({"mkdir", "writeFile"}) : \A d \in GitignoreDirectories :
        /\ fsOps[i].arg # SLASH \o d
        /\ ~StartsWith(fsOps[i].arg, SLASH \o d \o SLASH)

\* C23: when window.showDirectoryPicker is not available the pipeline never
\* starts: the first step reports the error, no directory is read, no sandbox
\* operation is issued, no process is spawned and the chat is not started.
C23_UnsupportedNeverStarts ==
  ~pickerSupported =>
     /\ pc \in {"idle", "failed", "unsupported"}
     /\ pc = "failed" => result = Thrown(MSG_UNSUPPORTED, -1)
     /\ pc = "unsupported" => toasts = << Toast("error", MSG_BROWSER, -1, 0) >>
     /\ \A i \in 1..Len(toasts) : toasts[i].type = "error"
     /\ tree = {}
     /\ fsOps = <<>>
     /\ startProcess = "none"
     /\ ~chatStoreStarted

\* importLocalDirectory was called without the picker and has thrown
C23_Witness ==
  /\ ~pickerSupported
  /\ pc = "failed"
  /\ result.message = MSG_UNSUPPORTED
  /\ toasts # <<>>

\* the directory a spawned process runs in: the cwd option, and without one
\* the working directory of the sandbox, which is the directory the paths of
\* webcontainer.fs start at
WorkingDirectory(op) == IF op.cwd = <<>> THEN Root ELSE op.cwd

C26_ExitAndOutputIndependent ==
  /\ pc = "awaitInstall" => ENABLED InstallExit
  /\ installExitCode # -1 => pc \in {"determineStart", "spawnStart", "done", "failed"}
  /\ installConsumed < installOutput => ENABLED ConsumeInstallOutput

\* the pipeline has gone on after the exit while output is still unconsumed
C26_Witness ==
  /\ installExitCode # -1
  /\ installConsumed < installOutput
  /\ pc \in {"determineStart", "spawnStart", "done", "failed"}

\* C25: the start process is not waited on: once npm install has exited with
\* code 0 and a start command is determined, importLocalDirectory eventually
\* returns true with the start process spawned, also when that process never
\* exits.
C25_StartNotAwaited ==
  (installExitCode = 0 /\ startCmd # <<>>) ~> (result = Returned /\ StartSpawns # {})

\* importLocalDirectory has returned while the start process is running
C25_Witness ==
  /\ result = Returned
  /\ startProcess = "running"
  /\ StartSpawns # {}

(***************************************************************************)
(* The flat import: handleImportedFiles of Workbench.client.tsx.           *)
(*                                                                         *)
(* A path is the sequence of its segments: '/home/project/app/a.js' is     *)
(* <<"home", "project", "app", "a.js">>.  A JavaScript object used as a    *)
(* map keeps its keys in insertion order, so a map from paths to entries   *)
(* is a sequence of entries with distinct paths.                           *)
(***************************************************************************)
HOME_PROJECT == <<"home", "project">>

\* a File of the event: file.webkitRelativePath.split('/') and its text
File(relativePath, content) ==
  [webkitRelativePath |-> relativePath, name |-> relativePath[Len(relativePath)],
   content |-> content]

FileUniverse ==
  { File(<<"app", "package.json">>, Manifest({"start", "dev"})),
    File(<<"app", "src", "package.json">>, NotJson),
    File(<<"web", "b.js">>, BYTES) }

Range(f) == { f[i] : i \in DOMAIN f }

\* the file lists of a directory input: distinct files of one selected folder,
\* in any order
FileLists ==
  { l \in UNION { [1..n -> FileUniverse] : n \in 1..Cardinality(FileUniverse) } :
      /\ \A i, j \in 1..Len(l) : l[i] = l[j] => i = j
      /\ \A i \in 1..Len(l) : l[i].webkitRelativePath[1] = l[1].webkitRelativePath[1] }

Entry(path, type, content) ==
  [path |-> path, name |-> path[Len(path)], type |-> type, content |-> content]

DirectoryEntry(path) == Entry(path, "directory", Text(<<>>))

Paths(map) == { map[i].path : i \in 1..Len(map) }

\* map[entry.path] = entry
Put(map, entry) ==
  IF entry.path \in Paths(map)
  THEN [i \in 1..Len(map) |-> IF map[i].path = entry.path THEN entry ELSE map[i]]
  ELSE Append(map, entry)

RECURSIVE PutAll(_, _)
PutAll(map, entries) ==
  IF entries = <<>> THEN map ELSE PutAll(Put(map, Head(entries)), Tail(entries))

\* the Set of directories after adding path
AddToSet(set, path) == IF path \in Range(set) THEN set ELSE Append(set, path)

\* "Build each directory level and add to the set": the proper prefixes of
\* '/home/project/' + relativePath, from the one of length 3 on
RECURSIVE AddPrefixes(_, _, _)
AddPrefixes(set, filePath, n) ==
  IF n >= Len(filePath) THEN set
  ELSE AddPrefixes(AddToSet(set, SubSeq(filePath, 1, n)), filePath, n + 1)

RECURSIVE CollectDirectories(_, _)
CollectDirectories(set, list) ==
  IF list = <<>> THEN set
  ELSE CollectDirectories(
         AddPrefixes(set, HOME_PROJECT \o Head(list).webkitRelativePath, Len(HOME_PROJECT) + 1),
         Tail(list))

\* Array.sort with the comparator a.split('/').length - b.split('/').length:
\* stable, ascending in the number of segments
RECURSIVE InsertByDepth(_, _)
InsertByDepth(sorted, path) ==
  IF sorted = <<>> THEN <<path>>
  ELSE IF Len(Head(sorted)) <= Len(path)
       THEN <<Head(sorted)>> \o InsertByDepth(Tail(sorted), path)
       ELSE <<path>> \o sorted

RECURSIVE SortByDepth(_)
SortByDepth(dirs) ==
  IF dirs = <<>> THEN <<>>
  ELSE InsertByDepth(SortByDepth(SubSeq(dirs, 1, Len(dirs) - 1)), dirs[Len(dirs)])

\* sortedDirs of a file list
sortedDirs(list) ==
  SortByDepth(CollectDirectories(<<Append(HOME_PROJECT, list[1].webkitRelativePath[1])>>, list))

\* path.match(/^\/home\/project\/[^\/]+$/)
IsRootLevel(path) == Len(path) = Len(HOME_PROJECT) + 1 /\ SubSeq(path, 1, 2) = HOME_PROJECT

IsKept(entry) == ~IsRootLevel(entry.path)

\* "Only keep files that are NOT in /home/project/ directly"
CleanUp(currentFiles) == SelectSeq(currentFiles, IsKept)

IsDirectory(entry) == entry.type = "directory"

IsFile(entry) == entry.type = "file"

\* "First add directories", "Then add files"
Merge(updatedFiles, processedFiles) ==
  PutAll(PutAll(updatedFiles, SelectSeq(processedFiles, IsDirectory)),
         SelectSeq(processedFiles, IsFile))

\* the entries of map whose path is not in paths
RECURSIVE Without(_, _)
Without(map, paths) ==
  IF map = <<>> THEN <<>>
  ELSE IF Head(map).path \in paths THEN Without(Tail(map), paths)
  ELSE <<Head(map)>> \o Without(Tail(map), paths)

\* Reconcile that leaves out the directories the store already holds
ReconcileSkipsKnownDirectories(currentFiles, processedFiles) ==
  PutAll(PutAll(CleanUp(currentFiles),
                Without(SelectSeq(processedFiles, IsDirectory), Paths(currentFiles))),
         SelectSeq(processedFiles, IsFile))

\* updatedFiles: the store read when processFiles starts, cleaned up, with the
\* entries of this import merged in
Reconcile(currentFiles, processedFiles) == Merge(CleanUp(currentFiles), processedFiles)

NullJson == [ok |-> FALSE, scripts |-> {}]

\* the default package.json and index.js created when the list has no package.json
DefaultFiles(projectRoot) ==
  << Entry(Append(projectRoot, "package.json"), "file", Manifest({"test", "start", "dev"})),
     Entry(Append(projectRoot, "index.js"), "file", BYTES) >>

\* the loop "Process files using original relative paths" over the files read
RECURSIVE ProcessFile(_, _)
ProcessFile(acc, list) ==
  IF list = <<>> THEN acc
  ELSE LET file == Head(list)
           filePath == HOME_PROJECT \o file.webkitRelativePath
           isPackageJson == file.name = "package.json"
           parsed == JsonParse(file.content)
       IN  ProcessFile(
             [ processedFiles |-> Put(acc.processedFiles, Entry(filePath, "file", file.content)),
               hasPackageJson |-> acc.hasPackageJson \/ isPackageJson,
               packageJsonPath |-> IF isPackageJson THEN filePath ELSE acc.packageJsonPath,
               packageJsonContent |->
                 IF isPackageJson /\ parsed.ok
                 THEN [ok |-> TRUE, scripts |-> parsed.scripts]
                 ELSE acc.packageJsonContent ],
             Tail(list))

\* projectRoot: /home/project/ and the folder of the first file
ProjectRoot(importedFiles) == Append(HOME_PROJECT, importedFiles[1].webkitRelativePath[1])

\* processedFiles before the first read: the directories, shallowest first
DirectoryEntries(importedFiles) ==
  LET dirs == sortedDirs(importedFiles)
  IN  PutAll(<<>>, [i \in 1..Len(dirs) |-> DirectoryEntry(dirs[i])])

\* the locals of processFiles when every file of the list has been read
ReadFiles(processedFiles, importedFiles) ==
  ProcessFile([ processedFiles |-> processedFiles, hasPackageJson |-> FALSE,
                packageJsonPath |-> <<>>, packageJsonContent |-> NullJson ],
              importedFiles)

\* "Only create default files if no package.json was found"
WithDefaultFiles(read, projectRoot) ==
  IF read.hasPackageJson THEN read.processedFiles
  ELSE PutAll(read.processedFiles, DefaultFiles(projectRoot))

\* the store that processFiles sets for a file list when it starts on store
\* and every read succeeds
ImportInto(store, importedFiles) ==
  Reconcile(store,
            WithDefaultFiles(ReadFiles(DirectoryEntries(importedFiles), importedFiles),
                             ProjectRoot(importedFiles)))

\* runScript of the terminal commands
runScript(packageJsonContent) ==
  IF packageJsonContent.ok /\ packageJsonContent.scripts # {}
  THEN IF "dev" \in packageJsonContent.scripts THEN "dev"
       ELSE IF "develop" \in packageJsonContent.scripts THEN "develop"
       ELSE IF "serve" \in packageJsonContent.scripts THEN "serve"
       ELSE "start"
  ELSE "start"

NoMeta ==
  [projectRoot |-> <<>>, hasPackageJson |-> FALSE, packageJsonPath |-> <<>>,
   hasProcessedFiles |-> FALSE, fileCount |-> -1]

FlatInit ==
  /\ terminalFound \in BOOLEAN
  /\ files = <<>>
  /\ runs = <<>>
  /\ lastWriter = 0
  /\ meta = NoMeta
  /\ selectedFile = <<>>
  /\ terminal = <<>>
  /\ toasts = <<>>

\* handleImportedFiles for an event with a non-empty file list: processFiles
\* runs up to the read of the first file.  The event comes from
\* dispatchImportEvent of handleImportProject, which shows its toast.success
\* as soon as window.dispatchEvent has returned
HandleImportedFiles ==
  /\ Len(runs) < MaxImports
  /\ \E importedFiles \in FileLists :
       LET projectRoot == ProjectRoot(importedFiles)
       IN
       /\ runs' = Append(runs,
            [ phase |-> "reading",
              importedFiles |-> importedFiles,
              projectRoot |-> projectRoot,
              processedFiles |-> DirectoryEntries(importedFiles),
              currentFiles |-> files,
              pred |-> lastWriter,
              updatedFiles |-> <<>>,
              hasPackageJson |-> FALSE,
              packageJsonContent |-> NullJson,
              packageJsonPath |-> <<>>,
              failedRead |-> 0,
              runScript |-> "",
              terminalProjectDir |-> <<>> ])
       /\ meta' = [NoMeta EXCEPT !.projectRoot = projectRoot]
       /\ toasts' = Append(toasts,
            Toast("success", MSG_PROJECT_IMPORTED, Len(importedFiles), Len(runs) + 1))
  /\ UNCHANGED << auxVars, hierVars, files, lastWriter, selectedFile, terminal, terminalFound >>

\* the file selected when no package.json of the list was recorded: the
\* files are sorted with README.md first, then package.json (the default one,
\* always there in this case), and the first one is selected
FirstFile(processedFiles) ==
  LET filesOnly == SelectSeq(processedFiles, IsFile)
      Named(names) == { i \in 1..Len(filesOnly) : filesOnly[i].name \in names }
      readme == Named({"README.md", "readme.md", "Readme.md", "README.MD"})
      first == IF readme # {} THEN readme ELSE Named({"package.json"})
  IN  filesOnly[CHOOSE i \in first : \A j \in first : i <= j].path

\* every file has been read: the rest of processFiles, up to the timer
FinishProcessFiles(r) ==
  /\ runs[r].phase = "reading"
  /\ LET run == runs[r]
         read == ReadFiles(run.processedFiles, run.importedFiles)
         processedFiles == WithDefaultFiles(read, run.projectRoot)
         updatedFiles == Reconcile(run.currentFiles, processedFiles)
     IN
     /\ files' = updatedFiles
     /\ lastWriter' = r
     /\ meta' = [meta EXCEPT
                   !.hasPackageJson = @ \/ read.hasPackageJson,
                   !.packageJsonPath = IF read.hasPackageJson THEN read.packageJsonPath ELSE @,
                   !.hasProcessedFiles = TRUE,
                   !.fileCount = Len(processedFiles)]
     /\ selectedFile' =
          IF read.packageJsonPath # <<>> THEN read.packageJsonPath
          ELSE FirstFile(processedFiles)
     /\ toasts' = Append(toasts, Toast("success", MSG_LOADED, Len(processedFiles), r))
     /\ runs' = [runs EXCEPT ![r] =
          [run EXCEPT !.phase = "timer",
                      !.processedFiles = processedFiles,
                      !.updatedFiles = updatedFiles,
                      !.hasPackageJson = read.hasPackageJson,
                      !.packageJsonContent = read.packageJsonContent,
                      !.packageJsonPath = read.packageJsonPath]]
  /\ UNCHANGED << auxVars, hierVars, terminal, terminalFound >>

\* reader.readAsText fails for the file at failedRead of the list: no onerror
\* handler, the promise of that read never settles and processFiles stays there
ReadNeverSettles(r) ==
  /\ runs[r].phase = "reading"
  /\ \E i \in 1..Len(runs[r].importedFiles) :
       runs' = [runs EXCEPT ![r].phase = "stuck", ![r].failedRead = i]
  /\ UNCHANGED << auxVars, hierVars, files, lastWriter, meta, selectedFile, terminal, terminalFound, toasts >>

\* "Now update files in workbench" throws, at workbenchStore.files.set or
\* after it at setSelectedFile: the catch shows toast.error, and neither the
\* timers nor toast.success are reached
StoreUpdateFails(r) ==
  /\ runs[r].phase = "reading"
  /\ LET run == runs[r]
         read == ReadFiles(run.processedFiles, run.importedFiles)
         processedFiles == WithDefaultFiles(read, run.projectRoot)
         updatedFiles == Reconcile(run.currentFiles, processedFiles)
     IN
     /\ \E stored \in BOOLEAN :
          /\ files' = IF stored THEN updatedFiles ELSE files
          /\ lastWriter' = IF stored THEN r ELSE lastWriter
          /\ meta' = [meta EXCEPT
                        !.hasPackageJson = @ \/ read.hasPackageJson,
                        !.packageJsonPath = IF read.hasPackageJson THEN read.packageJsonPath ELSE @,
                        !.hasProcessedFiles = @ \/ stored,
                        !.fileCount = IF stored THEN Len(processedFiles) ELSE @]
     /\ toasts' = Append(toasts, Toast("error", MSG_LOAD_ERROR, -1, r))
     /\ runs' = [runs EXCEPT ![r] =
          [run EXCEPT !.phase = "failed",
                      !.processedFiles = processedFiles,
                      !.hasPackageJson = read.hasPackageJson,
                      !.packageJsonContent = read.packageJsonContent,
                      !.packageJsonPath = read.packageJsonPath]]
  /\ UNCHANGED << auxVars, hierVars, selectedFile, terminal, terminalFound >>

\* the timers "Terminal commands": the first one opens the terminal and picks
\* runScript and the directory, the second one, runCommands, submits cd,
\* npm install and npm run when a terminal object is found
RunCommands(r) ==
  /\ runs[r].phase = "timer"
  /\ LET run == runs[r]
         script == runScript(run.packageJsonContent)
         terminalProjectDir ==
           IF run.packageJsonPath # <<>> THEN Parent(run.packageJsonPath)
           ELSE run.projectRoot
     IN
     /\ runs' = [runs EXCEPT ![r] =
          [run EXCEPT !.phase = "done",
                      !.runScript = script,
                      !.terminalProjectDir = terminalProjectDir]]
     /\ terminal' =
          IF terminalFound
          THEN terminal \o << [cmd |-> "cd", arg |-> terminalProjectDir],
                              [cmd |-> "npm install", arg |-> <<>>],
                              [cmd |-> "npm run", arg |-> <<script>>] >>
          ELSE terminal
  /\ UNCHANGED << auxVars, hierVars, files, lastWriter, meta, selectedFile, terminalFound, toasts >>

FlatNext ==
  \/ HandleImportedFiles
  \/ \E r \in 1..Len(runs) : FinishProcessFiles(r)
  \/ \E r \in 1..Len(runs) : ReadNeverSettles(r)
  \/ \E r \in 1..Len(runs) : RunCommands(r)

\* the flat import where the store update of processFiles may also throw
FlatFatalNext ==
  \/ FlatNext
  \/ \E r \in 1..Len(runs) : StoreUpdateFails(r)

(***************************************************************************)
(* parseGitignore on its own: the content is any text over a small         *)
(* alphabet, and one step applies the function to it.                      *)
(***************************************************************************)
GitignoreAlphabet == {"a", "#", "/", " ", "\n"}

Contents == UNION { [1..n -> GitignoreAlphabet] : n \in 0..MaxContentLen }

\* parseGitignore is not in use
ParseIdle ==
  /\ gitignoreContent = <<>>
  /\ parseReturned = FALSE
  /\ patterns = <<>>

ParseInit ==
  /\ gitignoreContent \in Contents
  /\ parseReturned = FALSE
  /\ patterns = <<>>

ParseGitignore ==
  /\ ~parseReturned
  /\ patterns' = parseGitignore(gitignoreContent)
  /\ parseReturned' = TRUE
  /\ UNCHANGED << gitignoreContent, selectVars, procVars, hierVars, flatVars >>

\* handleImportProject is not in use
SelectIdle ==
  /\ inputFiles = <<>>
  /\ chatStarted = FALSE
  /\ confirmImport = FALSE
  /\ sendMessageThrows = FALSE
  /\ selectPhase = "idle"
  /\ filesToImport = <<>>
  /\ confirmAsked = FALSE
  /\ dispatched = <<>>
  /\ notices = <<>>
  /\ sentMessages = 0
  /\ selectVariant = "chatInit"
  /\ importMode = FALSE
  /\ showWorkbench = "unset"

\* the directory-picker pipeline
InitHier == HierInit /\ FlatInit /\ terminalFound /\ ParseIdle /\ SelectIdle

SpecHier == InitHier /\ [][HierNext]_vars

\* the continuation of importLocalDirectory after determineStartCommand runs
\* when it can; nothing is required of the start process
SpecHierFair == SpecHier /\ WF_vars(SpawnStart)

\* the flat import; the directory picker is not used
InitFlat ==
  /\ HierInit
  /\ variant = "importDirectory"
  /\ pickerSupported
  /\ FlatInit
  /\ ParseIdle
  /\ SelectIdle

SpecFlat == InitFlat /\ [][FlatNext]_vars

SpecFlatFatal == InitFlat /\ [][FlatFatalNext]_vars

\* parseGitignore on every content
InitParse ==
  /\ HierInit
  /\ variant = "importDirectory"
  /\ pickerSupported
  /\ FlatInit
  /\ terminalFound
  /\ SelectIdle
  /\ ParseInit

ParseNext == ParseGitignore

SpecParse == InitParse /\ [][ParseNext]_vars

(***************************************************************************)
(* handleImportProject: input.onchange filters the selected files, asks    *)
(* for confirmation above MAX_FILES and dispatches 'workbench:import-files'*)
(* (Workbench.client.tsx 654-820, and the second copy at 1047-1156, which  *)
(* has no chat initialization and another toast).                          *)
(***************************************************************************)
excludePaths ==
  << <<"n","o","d","e","_","m","o","d","u","l","e","s","/">>,
     <<".","g","i","t","/">>,
     <<".","g","i","t","h","u","b","/">>,
     <<".","n","e","x","t","/">>,
     <<".","n","u","x","t","/">>,
     <<".","v","s","c","o","d","e","/">>,
     <<"d","i","s","t","/">>,
     <<"b","u","i","l","d","/">>,
     <<".","c","a","c","h","e","/">>,
     <<"c","o","v","e","r","a","g","e","/">>,
     <<"o","u","t","/">>,
     <<"p","u","b","l","i","c","/","a","s","s","e","t","s","/">>,
     <<"v","e","n","d","o","r","/">> >>

excludeExtensions ==
  << <<".","D","S","_","S","t","o","r","e">>,
     <<".","e","n","v">>,
     <<".","e","n","v",".","l","o","c","a","l">>,
     <<".","e","n","v",".","d","e","v","e","l","o","p","m","e","n","t">>,
     <<".","e","n","v",".","p","r","o","d","u","c","t","i","o","n">>,
     <<".","l","o","g">>,
     <<".","t","m","p">>,
     <<".","t","e","m","p">>,
     <<".","m","a","p">>,
     <<".","l","o","c","k">>,
     <<".","w","a","s","m">>,
     <<".","j","a","r">>,
     <<".","z","i","p">>,
     <<".","t","a","r">>,
     <<".","g","z">>,
     <<".","r","a","r">>,
     <<".","7","z">>,
     <<".","m","p","4">>,
     <<".","m","p","3">>,
     <<".","m","o","v">>,
     <<".","a","v","i">>,
     <<".","m","k","v">>,
     <<".","p","n","g">>,
     <<".","j","p","g">>,
     <<".","j","p","e","g">>,
     <<".","g","i","f">>,
     <<".","i","c","o">>,
     <<".","s","v","g">>,
     <<".","p","d","f">>,
     <<".","t","t","f">>,
     <<".","o","t","f">>,
     <<".","w","o","f","f">>,
     <<".","w","o","f","f","2">> >>

\* 1024 * 1024
MAX_FILE_SIZE == 1048576

MAX_FILES == 100

\* s.includes(p)
Includes(s, p) == \E i \in 1..(Len(s) - Len(p) + 1) : SubSeq(s, i, i + Len(p) - 1) = p

containsExcludedDir(relativePath) ==
  \E k \in 1..Len(excludePaths) : Includes(relativePath, excludePaths[k])

hasExcludedExtension(relativePath) ==
  \E k \in 1..Len(excludeExtensions) : EndsWith(relativePath, excludeExtensions[k])

\* the size test with the limit one byte too high
isFileTooLargeOffByOne(file) == file.size > MAX_FILE_SIZE + 1

isFileTooLarge(file) == file.size > MAX_FILE_SIZE

\* the callback of Array.from(inputFiles).filter
KeepFile(file) ==
  /\ ~containsExcludedDir(file.webkitRelativePath)
  /\ ~hasExcludedExtension(file.webkitRelativePath)
  /\ ~isFileTooLarge(file)

FilterFiles(fs) == SelectSeq(fs, KeepFile)

MSG_NO_IMPORTABLE == "No importable files found. Common directories like node_modules, .git, and binary/media files are excluded."
MSG_CANCELED == "Import canceled"
MSG_IMPORTED_EXCLUDED == "Project imported with files ( files excluded)"

\* a toast of handleImportProject; count and excluded are the numbers its text shows
Notice(type, message, count, excluded) ==
  [type |-> type, message |-> message, count |-> count, excluded |-> excluded]

NO_NUMBER == -1

ImportEvent(detail) == [type |-> "workbench:import-files", detail |-> detail]

\* a File of input.files
PickedFile(relativePath, size) == [webkitRelativePath |-> relativePath, size |-> size]

Digit == <<"0","1","2","3","4","5","6","7","8","9">>

RECURSIVE Numeral(_)
Numeral(n) ==
  IF n < 10 THEN <<Digit[n + 1]>>
  ELSE Numeral(n \div 10) \o <<Digit[(n % 10) + 1]>>

\* files that meet the conditions of the filter one by one
SpecialFiles ==
  << PickedFile(<<"a","p","p","/","n","o","d","e","_","m","o","d","u","l","e","s","/","x",".","j","s">>, 1),
     PickedFile(<<"a","p","p","/","s","r","c","/",".","g","i","t","/","c","o","n","f","i","g">>, 1),
     PickedFile(<<"a","p","p","/","p","u","b","l","i","c","/","a","s","s","e","t","s","/","a",".","j","s">>, 1),
     PickedFile(<<"a","p","p","/","l","a","y","o","u","t","/","a",".","j","s">>, 1),
     PickedFile(<<"a","p","p","/","r","e","b","u","i","l","d","/","a",".","j","s">>, 1),
     PickedFile(<<"a","p","p","/","a",".","p","n","g">>, 1),
     PickedFile(<<"a","p","p","/",".","e","n","v">>, 1),
     PickedFile(<<"a","p","p","/","b","i","g",".","j","s">>, MAX_FILE_SIZE + 1),
     PickedFile(<<"a","p","p","/","e","d","g","e",".","j","s">>, MAX_FILE_SIZE),
     PickedFile(<<"a","p","p","/","p","a","c","k","a","g","e",".","j","s","o","n">>, 1) >>

\* kept source files and files of node_modules, to reach the file counts
Bulk(kept, excluded) ==
  [i \in 1..kept |-> PickedFile(<<"a","p","p","/","s","r","c","/","f">> \o Numeral(i) \o <<".","j","s">>, 1)]
  \o [i \in 1..excluded |-> PickedFile(<<"a","p","p","/","n","o","d","e","_","m","o","d","u","l","e","s","/","m">> \o Numeral(i) \o <<".","j","s">>, 1)]

\* << kept, excluded >> numbers of bulk files of a selection
BulkShapes == { <<0, 0>>, <<90, 60>>, <<100, 0>> }

\* the SpecialFiles with an index in S, in their order
Picked(S) ==
  LET F[i \in 0..Len(SpecialFiles)] ==
        IF i = 0 THEN <<>>
        ELSE IF i \in S THEN Append(F[i - 1], SpecialFiles[i]) ELSE F[i - 1]
  IN  F[Len(SpecialFiles)]

Selections ==
  { Picked(S) \o Bulk(b[1], b[2]) :
      S \in { T \in SUBSET (1..Len(SpecialFiles)) : Cardinality(T) <= MaxPicked },
      b \in BulkShapes }

SelectVariants == {"chatInit", "excludedCount"}

SelectInit ==
  /\ inputFiles \in Selections
  /\ selectVariant \in SelectVariants
  /\ chatStarted \in BOOLEAN
  /\ confirmImport \in BOOLEAN
  /\ sendMessageThrows \in BOOLEAN
  \* only the first copy looks at chatStarted and calls sendMessage
  /\ selectVariant = "excludedCount" => ~chatStarted /\ ~sendMessageThrows
  /\ chatStarted => ~sendMessageThrows
  /\ selectPhase = "selected"
  /\ filesToImport = <<>>
  /\ confirmAsked = FALSE
  /\ dispatched = <<>>
  /\ notices = <<>>
  /\ sentMessages = 0
  /\ importMode = FALSE
  /\ showWorkbench = "unset"

\* input.onchange, from the filter to the dispatch
HandleImportProject ==
  /\ selectPhase = "selected"
  /\ selectPhase' = "handled"
  /\ IF Len(inputFiles) = 0
     THEN UNCHANGED << filesToImport, confirmAsked, dispatched, notices, sentMessages,
                       importMode, showWorkbench >>
     ELSE
       /\ filesToImport' = FilterFiles(inputFiles)
       /\ IF Len(filesToImport') = 0
          THEN /\ notices' = Append(notices, Notice("error", MSG_NO_IMPORTABLE, NO_NUMBER, NO_NUMBER))
               /\ UNCHANGED << confirmAsked, dispatched, sentMessages, importMode, showWorkbench >>
          ELSE
            /\ confirmAsked' = (Len(filesToImport') > MAX_FILES)
            /\ IF confirmAsked' /\ ~confirmImport
               THEN /\ notices' = Append(notices, Notice("info", MSG_CANCELED, NO_NUMBER, NO_NUMBER))
                    /\ UNCHANGED << dispatched, sentMessages, importMode, showWorkbench >>
               ELSE
                 /\ dispatched' = Append(dispatched, ImportEvent(filesToImport'))
                 /\ IF selectVariant = "chatInit"
                    THEN \* dispatchImportEvent, after the chat initialization
                      /\ notices' = Append(notices,
                            Notice("success", MSG_PROJECT_IMPORTED, Len(filesToImport'), NO_NUMBER))
                      /\ showWorkbench' = "scheduled"
                      /\ sentMessages' =
                            IF ~chatStarted /\ ~sendMessageThrows THEN sentMessages + 1
                            ELSE sentMessages
                      /\ importMode' = (~chatStarted /\ ~sendMessageThrows)
                    ELSE
                      /\ notices' = Append(notices,
                            Notice("info", MSG_IMPORTED_EXCLUDED, Len(filesToImport'),
                                   Len(inputFiles) - Len(filesToImport')))
                      /\ UNCHANGED << sentMessages, importMode, showWorkbench >>
  /\ UNCHANGED << inputFiles, chatStarted, confirmImport, sendMessageThrows, selectVariant >>
  /\ UNCHANGED << parseVars, procVars, hierVars, flatVars >>

\* the callback of setTimeout(..., 500) of dispatchImportEvent
ShowWorkbenchTimer ==
  /\ showWorkbench = "scheduled"
  /\ showWorkbench' = "set"
  /\ UNCHANGED << inputFiles, chatStarted, confirmImport, sendMessageThrows, selectPhase,
                  filesToImport, confirmAsked, dispatched, notices, sentMessages, selectVariant,
                  importMode >>
  /\ UNCHANGED << parseVars, procVars, hierVars, flatVars >>

\* handleImportProject on every selection
InitSelect ==
  /\ HierInit
  /\ variant = "importDirectory"
  /\ pickerSupported
  /\ FlatInit
  /\ terminalFound
  /\ ParseIdle
  /\ SelectInit

SelectNext ==
  \/ HandleImportProject
  \/ ShowWorkbenchTimer

SpecSelect == InitSelect /\ [][SelectNext]_vars

(***************************************************************************)
(* Properties of the flat import.                                          *)
(***************************************************************************)
\* the runs whose processFiles has set the store
Completed == { r \in 1..Len(runs) : runs[r].phase \in {"timer", "done"} }

\* second started on the store that first had just written
Successive(first, second) ==
  /\ first \in Completed
  /\ second \in Completed
  /\ first # second
  /\ runs[second].pred = first
  /\ runs[second].currentFiles = runs[first].updatedFiles

IsPrefix(p, q) == Len(p) <= Len(q) /\ SubSeq(q, 1, Len(p)) = p

\* C7: after two successive imports into the same root folder the store holds
\* no entry under that root that the first import added and the second import
\* does not have.
C7_StaleEntriesRemoved ==
  \A first, second \in 1..Len(runs) :
    (Successive(first, second) /\ runs[first].projectRoot = runs[second].projectRoot) =>
       \A p \in Paths(runs[second].updatedFiles) :
          (p \in Paths(runs[first].processedFiles) /\ IsPrefix(runs[second].projectRoot, p))
             => p \in Paths(runs[second].processedFiles)

\* the ancestor directories of path strictly below /home/project
Ancestors(path) == { SubSeq(path, 1, n) : n \in (Len(HOME_PROJECT) + 1)..(Len(path) - 1) }

AncestorsPresent(map) ==
  \A i \in 1..Len(map) :
    (map[i].type = "file" /\ IsPrefix(HOME_PROJECT, map[i].path)) =>
       \A d \in Ancestors(map[i].path) :
          \E j \in 1..Len(map) : map[j].path = d /\ map[j].type = "directory"

\* C8: every file entry of the store has all its ancestor directories below
\* /home/project in the store, as directory entries.
C8_AncestorsInStore == AncestorsPresent(files)

\* the directories of map come in ascending depth, before all its files
DirectoriesFirstByDepth(map) ==
  \A i, j \in 1..Len(map) :
    (i < j /\ map[j].type = "directory") =>
       /\ map[i].type = "directory"
       /\ Len(map[i].path) <= Len(map[j].path)

\* mkdir(d) comes before every mkdir and writeFile for a path under d
MkdirBeforeChildren ==
  \A j \in OpIndices({"mkdir", "writeFile"}) :
    \A d \in fsDirs \ {WORK_DIR} :
       StartsWith(fsOps[j].arg, d \o SLASH) =>
          \E i \in OpIndices({"mkdir"}) : i < j /\ fsOps[i].arg = d

\* C9: in the map an import writes to the store the directory entries come
\* in ascending depth and before the file entries, also when the store held
\* entries of an earlier import; in the walk mkdir(d) comes before every
\* operation under d.
C9_ParentsBeforeChildren ==
  /\ \A r \in Completed : DirectoriesFirstByDepth(runs[r].updatedFiles)
  /\ MkdirBeforeChildren

\* C10: importing the list E again into the store that the import of E into
\* S produced gives a store with the same entries: for two successive imports
\* of one list, and for every list on every store the imports produce.
C10_ReconcileIdempotent ==
  /\ \A first, second \in 1..Len(runs) :
       (Successive(first, second) /\ runs[first].importedFiles = runs[second].importedFiles) =>
          Range(runs[second].updatedFiles) = Range(runs[first].updatedFiles)
  /\ \A E \in FileLists :
       Range(ImportInto(ImportInto(files, E), E)) = Range(ImportInto(files, E))

C10_Witness ==
  \E first, second \in 1..Len(runs) :
    /\ Successive(first, second)
    /\ runs[first].importedFiles = runs[second].importedFiles
    /\ Len(runs[first].importedFiles) > 1
    /\ files = runs[second].updatedFiles
    /\ Range(files) = Range(runs[first].updatedFiles)

\* the files of the list of run r other than the one whose read failed
OtherFiles(r) ==
  { runs[r].importedFiles[i] : i \in 1..Len(runs[r].importedFiles) \ {runs[r].failedRead} }

\* run r has stored every file of the list but the failed one, has selected a
\* file and submitted its terminal commands
RecoveredFromFailedRead(r) ==
  /\ runs[r].phase = "done"
  /\ \A f \in OtherFiles(r) :
       HOME_PROJECT \o f.webkitRelativePath \in Paths(runs[r].updatedFiles)
  /\ HOME_PROJECT \o runs[r].importedFiles[runs[r].failedRead].webkitRelativePath
       \notin Paths(runs[r].updatedFiles)

\* C12: a failed read of one file is recovered in processFiles: the handler
\* is not left waiting for that read, it has finished without the file or can
\* still take a step towards it.
C12_FailedReadRecovered ==
  \A r \in 1..Len(runs) :
    runs[r].failedRead # 0 =>
       \/ RecoveredFromFailedRead(r)
       \/ ENABLED (FinishProcessFiles(r) \/ RunCommands(r))

\* the runs of processFiles that have started and not finished: files still
\* being read, or the timers of the terminal commands not yet run
InFlight == { r \in 1..Len(runs) : runs[r].phase \in {"reading", "timer"} }

\* C17: two import pipelines never run at the same time on the file store:
\* while a run has not finished, no second run is in flight.
C17_OneImportAtATime == Cardinality(InFlight) <= 1

\* the toasts that belong to run r
ToastsOf(r) == { i \in 1..Len(toasts) : toasts[i].run = r }

\* C19: an import that ends in a fatal error shows exactly one notification,
\* an error, and no success notification: for the flat import (the toast of
\* dispatchImportEvent and those of processFiles) and for openLocalDirectory.
C19_OneErrorNotification ==
  /\ \A r \in 1..Len(runs) :
       runs[r].phase = "failed" =>
          /\ Cardinality(ToastsOf(r)) = 1
          /\ \A i \in ToastsOf(r) : toasts[i].type = "error"
  /\ (pc = "failed" /\ Notified) =>
          /\ Cardinality(ToastsOf(0)) = 1
          /\ \A i \in ToastsOf(0) : toasts[i].type = "error"

(***************************************************************************)
(* Properties of parseGitignore.                                           *)
(***************************************************************************)
\* the trimmed lines of content that are neither empty nor comments
KeptLines ==
  LET lines == SplitLines(gitignoreContent, <<>>)
  IN  SelectSeq([i \in 1..Len(lines) |-> Trim(lines[i])], IsPatternLine)

\* C16: parseGitignore returns only patterns that are not empty, are not
\* comments, have no white space at either end and no leading '/', one for
\* each pattern line of the content and in the order of the lines.
C16_ParsedPatternsAreClean ==
  parseReturned =>
     /\ Len(patterns) = Len(KeptLines)
     /\ \A i \in 1..Len(patterns) :
          /\ patterns[i] \in {KeptLines[i], Substring(KeptLines[i], 1)}
          /\ patterns[i] # <<>>
          /\ ~StartsWith(patterns[i], <<"#">>)
          /\ Trim(patterns[i]) = patterns[i]
          /\ ~StartsWith(patterns[i], SLASH)

(***************************************************************************)
(* Properties of handleImportProject.                                      *)
(***************************************************************************)
\* the directories of a relative path: its segments without the file name
DirectorySegments(relativePath) ==
  LET segs == SplitPath(relativePath, <<>>)
  IN  SubSeq(segs, 1, Len(segs) - 1)

\* the directory names of the entries of excludePaths ('public/assets/' has two)
ExcludedNames ==
  { SplitPath(SubSeq(excludePaths[k], 1, Len(excludePaths[k]) - 1), <<>>) :
      k \in 1..Len(excludePaths) }

\* some run of directories of the path is an excluded directory
HasExcludedSegment(relativePath) ==
  LET dirs == DirectorySegments(relativePath)
  IN  \E i \in 1..Len(dirs) : \E names \in ExcludedNames :
         /\ i + Len(names) - 1 <= Len(dirs)
         /\ SubSeq(dirs, i, i + Len(names) - 1) = names

EndsWithExcludedExtension(relativePath) ==
  \E k \in 1..Len(excludeExtensions) : EndsWith(relativePath, excludeExtensions[k])

\* the file is one the filter has to reject
MustBeRejected(file) ==
  \/ HasExcludedSegment(file.webkitRelativePath)
  \/ EndsWithExcludedExtension(file.webkitRelativePath)
  \/ file.size > 1048576

\* C14: the filter of handleImportProject rejects every file whose relative
\* path has an excluded directory segment or ends with an excluded extension,
\* or whose size is above 1048576 bytes: no such file is among filesToImport
\* or in the detail of a dispatched 'workbench:import-files' event.
C14_FilterRejectsExcluded ==
  /\ \A j \in 1..Len(filesToImport) : ~MustBeRejected(filesToImport[j])
  /\ \A e \in 1..Len(dispatched) :
        \A j \in 1..Len(dispatched[e].detail) : ~MustBeRejected(dispatched[e].detail[j])

\* an event was dispatched from a selection that holds a file under an
\* excluded directory, one with an excluded extension and one above 1 MiB
C14_Witness ==
  /\ selectPhase = "handled"
  /\ dispatched # <<>>
  /\ \E i \in 1..Len(inputFiles) : HasExcludedSegment(inputFiles[i].webkitRelativePath)
  /\ \E i \in 1..Len(inputFiles) : EndsWithExcludedExtension(inputFiles[i].webkitRelativePath)
  /\ \E i \in 1..Len(inputFiles) : inputFiles[i].size > 1048576

\* C20: when more than 100 files are selected (the count before the filter),
\* an event is dispatched only after the user has confirmed; when the user
\* declines, no event is dispatched, the file store is unchanged and the only
\* notification is 'Import canceled'.
C20_ConfirmAboveMaxFiles ==
  (selectPhase = "handled" /\ Len(inputFiles) > 100) =>
     /\ dispatched # <<>> => (confirmAsked /\ confirmImport)
     /\ (confirmAsked /\ ~confirmImport) =>
           /\ dispatched = <<>>
           /\ files = <<>>
           /\ notices = << Notice("info", MSG_CANCELED, NO_NUMBER, NO_NUMBER) >>

\* the numbers the toast of the dispatch shows
ReportedToast == notices[Len(notices)]

\* C21: after a dispatch the toast reports the number of files passed on,
\* which is the number of selected files the filter accepts, and as a second
\* number what tells the number of files selected.
C21_BothCountsReported ==
  (selectPhase = "handled" /\ dispatched # <<>>) =>
     /\ ReportedToast.count = Len(dispatched[1].detail)
     /\ ReportedToast.count =
          Cardinality({ i \in 1..Len(inputFiles) : KeepFile(inputFiles[i]) })
     /\ ReportedToast.excluded # NO_NUMBER
     /\ ReportedToast.count + ReportedToast.excluded = Len(inputFiles)

\* C27: the filter has no false rejections: a selected file with no excluded
\* directory in its path, no excluded extension and at most 1048576 bytes is
\* among the files handleImportProject keeps.
C27_NoFalseRejection ==
  (selectPhase = "handled" /\ inputFiles # <<>>) =>
     LET kept == { filesToImport[j] : j \in 1..Len(filesToImport) }
     IN  \A i \in 1..Len(inputFiles) :
            ~MustBeRejected(inputFiles[i]) => inputFiles[i] \in kept

\* the list of run r holds no file named package.json
NoPackageJsonIn(r) ==
  \A i \in 1..Len(runs[r].importedFiles) : runs[r].importedFiles[i].name # "package.json"

\* C24: a file list without package.json is a fatal precondition of the flat
\* handler: the run of such a list does not set the file store and submits no
\* commands to the terminal.
C24_NoPackageJsonIsFatal ==
  \A r \in 1..Len(runs) :
    NoPackageJsonIn(r) =>
       /\ runs[r].phase \notin {"timer", "done"}
       /\ lastWriter # r
       /\ \A i \in 1..Len(terminal) :
            terminal[i].cmd = "cd" => terminal[i].arg # runs[r].projectRoot

\* the package.json files of the list of run r in the directory of its cd command
PackageJsonOfCd(r) ==
  { f \in Range(runs[r].importedFiles) :
      /\ f.name = "package.json"
      /\ HOME_PROJECT \o Parent(f.webkitRelativePath) = runs[r].terminalProjectDir }

\* C28: the script of `npm run` is chosen from the package.json in the
\* directory of the `cd` command: it is the script that runScript picks for
\* the content of that file.
C28_ScriptFromPackageJsonOfCd ==
  \A r \in 1..Len(runs) :
    (runs[r].phase = "done" /\ ~NoPackageJsonIn(r)) =>
       /\ PackageJsonOfCd(r) # {}
       /\ \A f \in PackageJsonOfCd(r) : runs[r].runScript = runScript(JsonParse(f.content))

\* the number of file entries among the entries run r has processed
FileEntryCount(r) ==
  Cardinality({ i \in 1..Len(runs[r].processedFiles) : IsFile(runs[r].processedFiles[i]) })

\* C30: the number in 'Successfully loaded N files into the workbench' and
\* the fileCount of the metadata are the number of file entries the import
\* added to the store, directories not counted.
C30_CountsAreFileEntries ==
  /\ \A i \in 1..Len(toasts) :
       toasts[i].message = MSG_LOADED => toasts[i].count = FileEntryCount(toasts[i].run)
  /\ (lastWriter # 0 /\ meta.hasProcessedFiles) => meta.fileCount = FileEntryCount(lastWriter)

====
